---- MODULE Spec2Model ----
(***************************************************************************)
(* The Canvas component (React + fabric.js): a drawing surface over a      *)
(* background image with a snapshot history for undo / redo.               *)
(*                                                                         *)
(* React semantics kept by the model:                                      *)
(*  - every function of the component is a closure over the values of      *)
(*    canvas, history and historyIndex of the render that created it;      *)
(*  - setX(v) calls made while a handler runs are queued and applied when  *)
(*    the handler has returned; the last value set for a state wins;       *)
(*  - the effect that registers the fabric listeners depends on            *)
(*    [canvas, history, historyIndex], so after every commit the listeners *)
(*    of the surface held in `canvas` are the closures of that commit.     *)
(* fabric semantics kept by the model: canvas.add / canvas.remove fire     *)
(* object:added / object:removed synchronously, getObjects() returns a     *)
(* copy, removing the active object discards the selection.                *)
(* JavaScript objects are references: a shape is an id into `heap`, and a   *)
(* clone is a new id holding a copy of the properties.                     *)
(***************************************************************************)
EXTENDS Integers, Sequences, FiniteSets, TLC

\* Bound on the number of user gestures of a run.
MaxOps == 6

\* Bound on the number of user gestures of a run in which the surface is torn
\* down (props changed, or unmount).
MaxOpsTeardown == 5

\* Bound on the number of changes of the props (re-creations of the surface).
MaxPropsChanges == 1

\* left / top of a new rectangle or circle.
DefaultLeft == 100
DefaultTop == 100

\* Positions a user can drag a shape to.
DragTargets == {<<100, 100>>, <<200, 200>>}

\* useState(null): no surface.
Null == 0

\* The value of history[i] for an index outside the array.
Undefined == [undefined |-> TRUE]

\* No setX call queued for a state.
NoUpdate == <<>>

VARIABLES
    canvas,        \* React state `canvas`: Null or the id of a surface
    history,       \* React state `history`: sequence of HistoryState
    historyIndex,  \* React state `historyIndex` (0-based, -1 = none)
    fabricCanvas,  \* id of the surface created by the last run of the init effect
    heap,          \* heap[id]: the properties of the shape object id
    objects,       \* objects[s]: the shape objects of surface s (fabric _objects)
    activeObject,  \* activeObject[s]: the selected shape object of s, 0 = none
    mounted,       \* the component is mounted
    disposed,      \* surfaces on which dispose() was called
    loads,         \* image loads in flight, each with the closure of its callback
    now,           \* Date.now(), a logical clock
    trace,         \* the events so far: image loads and user gestures
    prev           \* history, historyIndex and shapes before the last event

vars == <<canvas, history, historyIndex, fabricCanvas, heap, objects,
          activeObject, mounted, disposed, loads, now, trace, prev>>

----------------------------------------------------------------------------
\* Shapes and snapshots

Rect == [type |-> "rect", left |-> DefaultLeft, top |-> DefaultTop]

Circle == [type |-> "circle", left |-> DefaultLeft, top |-> DefaultTop]

\* fabric.util.object.clone(obj): the properties of obj, copied into a new
\* object.
clone(obj) == [type |-> obj.type, left |-> obj.left, top |-> obj.top]

\* A new object with properties obj; its id is the new length of the heap.
alloc(w, obj) == [w EXCEPT !.heap = Append(@, obj)]

\* canvas.getObjects().map(obj => clone(obj)): the new objects, and the world
\* that holds them.
cloneIds(w, ids) == [i \in 1..Len(ids) |-> Len(w.heap) + i]

cloneAll(w, ids) ==
    [w EXCEPT !.heap = @ \o [i \in 1..Len(ids) |-> clone(w.heap[ids[i]])]]

\* Array.prototype.indexOf, 1-based, 0 when absent.
IndexOf(seq, x) ==
    IF \E i \in 1..Len(seq) : seq[i] = x
    THEN CHOOSE i \in 1..Len(seq) :
             seq[i] = x /\ \A j \in 1..(i - 1) : seq[j] # x
    ELSE 0

\* history[i] as JavaScript reads it (i is 0-based).
HistoryAt(h, i) == IF i + 1 \in 1..Len(h) THEN h[i + 1] ELSE Undefined

\* Array.prototype.slice(0, end) for end >= 0.
slice0(h, end) == SubSeq(h, 1, IF end < Len(h) THEN end ELSE Len(h))

RemoveAt(s, i) == SubSeq(s, 1, i - 1) \o SubSeq(s, i + 1, Len(s))

----------------------------------------------------------------------------
\* A handler runs over a world w:
\*   w.heap, w.objects, w.activeObject : the shape objects and the surfaces
\*       (mutated in place)
\*   w.setCanvas, w.setHistory, w.setHistoryIndex : the queued state updates
\* and with a closure cl = [canvas, history, historyIndex]: the values of the
\* render that created the handler.

World == [heap |-> heap, objects |-> objects, activeObject |-> activeObject,
          setCanvas |-> NoUpdate, setHistory |-> NoUpdate,
          setHistoryIndex |-> NoUpdate]

\* The closure of the handlers of the current render.
Closure == [canvas |-> canvas, history |-> history, historyIndex |-> historyIndex]

\* saveState with the cursor set to the length of the new history instead of
\* its last index.
saveStateIndexPastEnd(cl, w) ==
    IF cl.canvas # Null
    THEN LET newState == [objects |-> cloneIds(w, w.objects[cl.canvas]),
                          timestamp |-> now]
             newHistory == slice0(cl.history, cl.historyIndex + 1)
         IN [cloneAll(w, w.objects[cl.canvas]) EXCEPT
                      !.setHistory = <<newHistory \o <<newState>>>>,
                      !.setHistoryIndex = <<Len(newHistory) + 1>>]
    ELSE w

\* saveState keeping history.slice(0, historyIndex): the snapshot at the
\* cursor is dropped with the redo branch.
saveStateSliceShort(cl, w) ==
    IF cl.canvas # Null
    THEN LET newState == [objects |-> cloneIds(w, w.objects[cl.canvas]),
                          timestamp |-> now]
             newHistory == slice0(cl.history,
                                  IF cl.historyIndex < 0 THEN 0 ELSE cl.historyIndex)
         IN [cloneAll(w, w.objects[cl.canvas]) EXCEPT
                      !.setHistory = <<newHistory \o <<newState>>>>,
                      !.setHistoryIndex = <<Len(newHistory)>>]
    ELSE w

\* saveState storing canvas.getObjects() itself: the snapshot holds the live
\* shape objects instead of clones.
saveStateNoClone(cl, w) ==
    IF cl.canvas # Null
    THEN LET newState == [objects |-> w.objects[cl.canvas], timestamp |-> now]
             newHistory == slice0(cl.history, cl.historyIndex + 1)
         IN [w EXCEPT !.setHistory = <<newHistory \o <<newState>>>>,
                      !.setHistoryIndex = <<Len(newHistory)>>]
    ELSE w

saveState(cl, w) ==
    IF cl.canvas # Null
    THEN LET newState == [objects |-> cloneIds(w, w.objects[cl.canvas]),
                          timestamp |-> now]
             newHistory == slice0(cl.history, cl.historyIndex + 1)
         IN [cloneAll(w, w.objects[cl.canvas]) EXCEPT
                      !.setHistory = <<newHistory \o <<newState>>>>,
                      !.setHistoryIndex = <<Len(newHistory)>>]
    ELSE w

\* The object:modified / object:added / object:removed listeners of surface s.
\* The listener effect registers them on cl.canvas and nowhere else.
fire(s, cl, w) == IF cl.canvas # Null /\ cl.canvas = s THEN saveState(cl, w) ELSE w

\* fabric canvas.add(obj) on surface s.
canvasAdd(s, obj, cl, w) ==
    fire(s, cl, [w EXCEPT !.objects[s] = Append(@, obj)])

\* fabric canvas.remove(obj) on surface s, i being indexOf(obj) (0: absent).
canvasRemove(s, i, cl, w) ==
    IF i \in 1..Len(w.objects[s])
    THEN LET w1 == [w EXCEPT !.objects[s] = RemoveAt(@, i),
                             !.activeObject[s] =
                                 IF @ = w.objects[s][i] THEN 0 ELSE @]
         IN fire(s, cl, w1)
    ELSE w

\* canvas.getObjects().forEach(obj => canvas.remove(obj)): n shapes are left
\* of the copied list, the next one is the first shape still on the surface.
RECURSIVE removeEach(_, _, _, _)
removeEach(s, n, cl, w) ==
    IF n = 0 THEN w ELSE removeEach(s, n - 1, cl, canvasRemove(s, 1, cl, w))

\* state.objects.forEach(obj => canvas.add(clone(obj)))
RECURSIVE addEach(_, _, _, _)
addEach(s, objs, cl, w) ==
    IF objs = <<>> THEN w
    ELSE LET w1 == alloc(w, clone(w.heap[Head(objs)]))
         IN addEach(s, Tail(objs), cl, canvasAdd(s, Len(w1.heap), cl, w1))

loadState(cl, state, w) ==
    IF cl.canvas # Null
    THEN LET s == cl.canvas
             cleared == removeEach(s, Len(w.objects[s]), cl, w)
         IN IF state = Undefined
            THEN cleared    \* state.objects throws; the handler ends here
            ELSE addEach(s, state.objects, cl, cleared)
    ELSE w

\* The guard of undo with >= for >.
canUndoInclusive(cl) == cl.historyIndex >= 0

canUndo(cl) == cl.historyIndex > 0

canRedo(cl) == cl.historyIndex < Len(cl.history) - 1

undo(cl, w) ==
    IF canUndo(cl)
    THEN LET newIndex == cl.historyIndex - 1
         IN loadState(cl, HistoryAt(cl.history, newIndex),
                      [w EXCEPT !.setHistoryIndex = <<newIndex>>])
    ELSE w

redo(cl, w) ==
    IF canRedo(cl)
    THEN LET newIndex == cl.historyIndex + 1
         IN loadState(cl, HistoryAt(cl.history, newIndex),
                      [w EXCEPT !.setHistoryIndex = <<newIndex>>])
    ELSE w

\* canvas.add(shape); canvas.setActiveObject(shape)
\* addShape reaching the surface through the init effect's fabricCanvas
\* instead of the `canvas` state: it draws before the image has loaded.
addShapeOnRef(cl, shape, w) ==
    IF fabricCanvas # Null
    THEN LET w0 == alloc(w, shape)
             w1 == canvasAdd(fabricCanvas, Len(w0.heap), cl, w0)
         IN [w1 EXCEPT !.activeObject[fabricCanvas] = Len(w0.heap)]
    ELSE w

addShape(cl, shape, w) ==
    IF cl.canvas # Null
    THEN LET w0 == alloc(w, shape)
             w1 == canvasAdd(cl.canvas, Len(w0.heap), cl, w0)
         IN [w1 EXCEPT !.activeObject[cl.canvas] = Len(w0.heap)]
    ELSE w

addRectangle(cl, w) == addShape(cl, Rect, w)

addCircle(cl, w) == addShape(cl, Circle, w)

\* deleteSelected capturing by itself after the selection check, whether or
\* not a shape was removed.
deleteSelectedAlwaysSaves(cl, w) ==
    IF cl.canvas # Null
    THEN saveState(cl,
             IF w.activeObject[cl.canvas] # 0
             THEN canvasRemove(cl.canvas,
                      IndexOf(w.objects[cl.canvas], w.activeObject[cl.canvas]),
                      cl, w)
             ELSE w)
    ELSE w

deleteSelected(cl, w) ==
    IF cl.canvas # Null /\ w.activeObject[cl.canvas] # 0
    THEN canvasRemove(cl.canvas,
                      IndexOf(w.objects[cl.canvas], w.activeObject[cl.canvas]),
                      cl, w)
    ELSE w

\* canvas.toDataURL and a download: no state of the component changes.
exportCanvas(cl, w) == w

\* The callback of fabric.Image.fromURL of surface s: setCanvas(fabricCanvas);
\* saveState(), with the closure of the render whose effect started the load.
imageLoaded(s, cl, w) == saveState(cl, [w EXCEPT !.setCanvas = <<s>>])

\* The user drags shape i of surface s to position p: the shape becomes the
\* selection, moves, and fabric fires object:modified.
modify(s, i, p, cl, w) ==
    fire(s, cl, [w EXCEPT !.heap[w.objects[s][i]].left = p[1],
                          !.heap[w.objects[s][i]].top = p[2],
                          !.activeObject[s] = w.objects[s][i]])

\* The user clicks shape i of surface s, or its background (i = 0).
select(s, i, w) ==
    [w EXCEPT !.activeObject[s] = IF i = 0 THEN 0 ELSE w.objects[s][i]]

----------------------------------------------------------------------------
\* The component as a state machine

Snapshot == [canvas |-> canvas, history |-> history,
             historyIndex |-> historyIndex, heap |-> heap,
             objects |-> objects, activeObject |-> activeObject,
             disposed |-> disposed, loads |-> loads]

\* The events that are no user gesture.
Lifecycle == {"imageLoaded", "propsChanged", "unmount"}

IsGesture(e) == e \notin Lifecycle

Gestures(t) == Len(SelectSeq(t, IsGesture))

\* A surface has been torn down in the run.
TornDown(t) == \E i \in 1..Len(t) : t[i] \in {"propsChanged", "unmount"}

\* The number of gestures a run is explored to.
GestureBound(t) == IF TornDown(t) THEN MaxOpsTeardown ELSE MaxOps

\* React applies the queued updates and renders again.
Commit(op, w) ==
    /\ canvas' = IF w.setCanvas = NoUpdate THEN canvas ELSE w.setCanvas[1]
    /\ history' = IF w.setHistory = NoUpdate THEN history ELSE w.setHistory[1]
    /\ historyIndex' = IF w.setHistoryIndex = NoUpdate THEN historyIndex
                       ELSE w.setHistoryIndex[1]
    /\ heap' = w.heap
    /\ objects' = w.objects
    /\ activeObject' = w.activeObject
    /\ now' = now + 1
    /\ prev' = Snapshot
    /\ trace' = Append(trace, op)

\* A user gesture: its handler runs, then React commits.
Gesture(op, w) ==
    /\ Gestures(trace) < GestureBound(trace)
    /\ mounted
    /\ Commit(op, w)
    /\ UNCHANGED <<fabricCanvas, mounted, disposed, loads>>

\* The state after mount: useState's initial values, and the init effect run
\* once. With the canvas element attached (ref) the effect has created surface
\* 1 and started its image load, with the closure of the first render; without
\* it (canvasRef.current null) the effect has done nothing.
Init ==
    \E ref \in BOOLEAN :
        /\ canvas = Null
        /\ history = <<>>
        /\ historyIndex = -1
        /\ fabricCanvas = IF ref THEN 1 ELSE Null
        /\ heap = <<>>
        /\ objects = IF ref THEN << <<>> >> ELSE <<>>
        /\ activeObject = IF ref THEN <<0>> ELSE <<>>
        /\ mounted = TRUE
        /\ disposed = {}
        /\ loads = IF ref
                   THEN {[fabricCanvas |-> 1,
                          closure |-> [canvas |-> Null, history |-> <<>>,
                                       historyIndex |-> -1]]}
                   ELSE {}
        /\ now = 1
        /\ trace = <<>>
        /\ prev = [canvas |-> Null, history |-> <<>>, historyIndex |-> -1,
                   heap |-> <<>>, objects |-> objects,
                   activeObject |-> activeObject,
                   disposed |-> {}, loads |-> loads]

\* The image of load l has arrived and the callback of fabric.Image.fromURL
\* runs. Its first call, setBackgroundImage(img, renderAll), renders at once:
\* on a disposed surface (no context left) that throws in the fabric builds
\* that render regardless, and the callback ends there; it returns in the
\* builds that skip the rendering of a disposed canvas. After unmount React
\* ignores the updates the callback queues.
ImageLoaded ==
    \E l \in loads :
        \E throws \in IF l.fabricCanvas \in disposed THEN BOOLEAN ELSE {FALSE} :
            /\ Commit("imageLoaded",
                      IF throws \/ ~mounted THEN World
                      ELSE imageLoaded(l.fabricCanvas, l.closure, World))
            /\ loads' = loads \ {l}
            /\ UNCHANGED <<fabricCanvas, mounted, disposed>>

AddRectangle ==
    Gesture("addRectangle", addRectangle(Closure, World))

AddCircle ==
    Gesture("addCircle", addCircle(Closure, World))

DeleteSelected ==
    Gesture("deleteSelected", deleteSelected(Closure, World))

Undo ==
    Gesture("undo", undo(Closure, World))

Redo ==
    Gesture("redo", redo(Closure, World))

ExportCanvas ==
    Gesture("exportCanvas", exportCanvas(Closure, World))

\* A drag of a shape of the surface on screen.
Modify ==
    /\ fabricCanvas # Null
    /\ fabricCanvas \notin disposed
    /\ \E i \in 1..Len(objects[fabricCanvas]), p \in DragTargets :
        /\ p # <<heap[objects[fabricCanvas][i]].left,
                  heap[objects[fabricCanvas][i]].top>>
        /\ Gesture("modify", modify(fabricCanvas, i, p, Closure, World))

\* A click on a shape (i > 0) or on the background (i = 0) of the surface on
\* screen changes the selection; fabric fires no object:* event.
Select ==
    /\ fabricCanvas # Null
    /\ fabricCanvas \notin disposed
    /\ \E i \in 0..Len(objects[fabricCanvas]) :
        /\ select(fabricCanvas, i, World) # World
        /\ Gesture("select", select(fabricCanvas, i, World))

Next ==
    \/ ImageLoaded
    \/ AddRectangle
    \/ AddCircle
    \/ DeleteSelected
    \/ Undo
    \/ Redo
    \/ ExportCanvas
    \/ Modify
    \/ Select

Spec == Init /\ [][Next]_vars

----------------------------------------------------------------------------
\* The component under a parent that changes its props or unmounts it

\* fabricCanvas.dispose(): the surface drops its shapes and its context; the
\* listeners registered with canvas.on and the selection stay.
dispose(s, objs) == [objs EXCEPT ![s] = <<>>]

\* backgroundImage, width or height changes: React renders, runs the cleanup
\* of the init effect (dispose of the surface it created) and then the effect
\* again: a new surface on the same element and a new image load, whose
\* callback closes over this render. The `canvas` state is not touched, and
\* the listener effect does not run (its dependencies are unchanged).
PropsChanged ==
    /\ mounted
    /\ fabricCanvas # Null
    /\ Gestures(trace) < MaxOpsTeardown
    /\ Len(SelectSeq(trace, LAMBDA e : e = "propsChanged")) < MaxPropsChanges
    /\ disposed' = disposed \cup {fabricCanvas}
    /\ objects' = Append(dispose(fabricCanvas, objects), <<>>)
    /\ activeObject' = Append(activeObject, 0)
    /\ fabricCanvas' = Len(objects) + 1
    /\ loads' = loads \cup {[fabricCanvas |-> Len(objects) + 1,
                              closure |-> Closure]}
    /\ now' = now + 1
    /\ prev' = Snapshot
    /\ trace' = Append(trace, "propsChanged")
    /\ UNCHANGED <<canvas, history, historyIndex, heap, mounted>>

\* The component is unmounted: the cleanup of the init effect disposes of
\* the surface; the toolbar is gone.
Unmount ==
    /\ mounted
    /\ fabricCanvas # Null
    /\ Gestures(trace) < MaxOpsTeardown
    /\ mounted' = FALSE
    /\ disposed' = disposed \cup {fabricCanvas}
    /\ objects' = dispose(fabricCanvas, objects)
    /\ now' = now + 1
    /\ prev' = Snapshot
    /\ trace' = Append(trace, "unmount")
    /\ UNCHANGED <<canvas, history, historyIndex, fabricCanvas, heap,
                   activeObject, loads>>

NextTeardown ==
    \/ Next
    \/ PropsChanged
    \/ Unmount

SpecTeardown == Init /\ [][NextTeardown]_vars

----------------------------------------------------------------------------
\* Vocabulary of the properties

LastOp == IF trace = <<>> THEN "none" ELSE trace[Len(trace)]

\* The properties of the shape objects ids, read in heap hp.
Content(hp, ids) == [i \in 1..Len(ids) |-> hp[ids[i]]]

\* The shapes on the surface the component holds (empty without a surface).
Shapes == IF canvas = Null THEN <<>> ELSE Content(heap, objects[canvas])

PrevShapes ==
    IF prev.canvas = Null THEN <<>>
    ELSE Content(prev.heap, prev.objects[prev.canvas])

\* The shapes stored at the cursor (0-based index i) of history h.
ShapesAt(h, i) == Content(heap, h[i + 1].objects)

Edits == {"addRectangle", "addCircle", "modify"}

\* The last event was an add, a modify or a remove on a loaded surface.
EditDone ==
    /\ prev.canvas # Null
    /\ \/ LastOp \in Edits
       \/ LastOp = "deleteSelected" /\ prev.activeObject[prev.canvas] # 0

\* While the surface is not re-created (Spec) the cursor is the last index
\* once a snapshot exists: undo captures again through the object:removed /
\* object:added listeners instead of moving the cursor back, so that no state
\* of Spec lets redo() pass its guard. After a re-creation an undo() from an
\* empty surface to an empty snapshot fires no event and does move the cursor.
CursorAtTail == historyIndex = Len(history) - 1

----------------------------------------------------------------------------
\* C1: when the image load completes on a fresh surface the first snapshot is
\* captured: the history becomes one snapshot of the empty shape collection
\* and the cursor 0, before any user action.
C1_FirstSnapshotOnLoad ==
    (LastOp = "imageLoaded" /\ prev.history = <<>> /\ prev.historyIndex = -1)
        => /\ Len(history) = 1
           /\ historyIndex = 0
           /\ ShapesAt(history, 0) = <<>>

\* C2: undo() at a cursor > 0 leaves the cursor one lower and the surface
\* showing exactly the snapshot stored at the new cursor.
C2_UndoStepsBack ==
    (LastOp = "undo" /\ prev.historyIndex > 0)
        => /\ historyIndex = prev.historyIndex - 1
           /\ historyIndex + 1 \in 1..Len(history)
           /\ Shapes = ShapesAt(history, historyIndex)

\* C4: undo() and redo() leave the history sequence as it was, in length and
\* in contents.
C4_UndoRedoKeepHistory ==
    LastOp \in {"undo", "redo"} => history = prev.history

\* C5: undo() at cursor 0 or -1 and redo() at cursor length-1 change neither
\* the shapes of the surface, nor the cursor, nor the history.
C5_BoundaryNoOp ==
    (\/ LastOp = "undo" /\ prev.historyIndex <= 0
     \/ LastOp = "redo" /\ prev.historyIndex >= Len(prev.history) - 1)
        => /\ objects = prev.objects
           /\ Shapes = PrevShapes
           /\ historyIndex = prev.historyIndex
           /\ history = prev.history

\* An undo() at cursor 0 and then a redo() at the tail, with a shape on the
\* surface, have run.
C5_Witness ==
    /\ Len(trace) >= 2
    /\ trace[Len(trace) - 1] = "undo"
    /\ LastOp = "redo"
    /\ prev.historyIndex = 0
    /\ Len(prev.history) = 1
    /\ PrevShapes # <<>>

\* C6: the cursor is -1 or an index of the history, and it is -1 exactly when
\* the history is empty.
C6_CursorInRange ==
    /\ historyIndex \in -1..(Len(history) - 1)
    /\ historyIndex = -1 <=> history = <<>>

\* Image load, add, modify, undo, delete and redo have all happened and the
\* history holds the four snapshots of the add, the modify, the undo and the
\* delete.
C6_Witness ==
    /\ \A op \in {"imageLoaded", "addRectangle", "modify", "undo",
                  "deleteSelected", "redo"} :
           \E i \in 1..Len(trace) : trace[i] = op
    /\ Len(history) = 4
    /\ historyIndex = 3

\* C7: after each add, modify or remove event on a loaded surface the history
\* is one snapshot longer than before and the cursor is its last index.
C7_EditAppends ==
    EditDone => /\ Len(history) = Len(prev.history) + 1
                /\ historyIndex = Len(history) - 1

\* An add, a modify and a remove, and nothing else, on a loaded surface.
C7_Witness ==
    /\ trace = <<"imageLoaded", "addRectangle", "modify", "deleteSelected">>
    /\ EditDone
    /\ Len(history) = 3

\* The last event has captured a snapshot while the cursor was below the last
\* index of the history.
CaptureBelowTail ==
    /\ history # prev.history
    /\ prev.historyIndex >= 0
    /\ prev.historyIndex < Len(prev.history) - 1

\* C8: a capture made while the cursor c is below the last index discards the
\* snapshots after c, keeps the snapshots 0..c, appends the new snapshot at
\* c+1 and leaves the cursor at c+1, the last index.
C8_CaptureDropsRedoBranch ==
    CaptureBelowTail
        => /\ Len(history) = prev.historyIndex + 2
           /\ SubSeq(history, 1, prev.historyIndex + 1)
                  = SubSeq(prev.history, 1, prev.historyIndex + 1)
           /\ historyIndex = prev.historyIndex + 1

\* C9: from a state whose cursor is strictly between 0 and the last index,
\* undo() immediately followed by redo() gives back the shapes and the cursor
\* of the state before the undo().
C9_UndoRedoRestores ==
    [][ ( /\ LastOp = "undo"
          /\ prev.historyIndex > 0
          /\ prev.historyIndex < Len(prev.history) - 1
          /\ trace' = Append(trace, "redo") )
        => ( /\ historyIndex' = prev.historyIndex
             /\ Shapes' = PrevShapes ) ]_vars

\* C10: from a loaded, empty surface: addRectangle(), addCircle() give history
\* length 3 and cursor 2; undo() gives cursor 1 and only the rectangle; undo()
\* gives cursor 0 and no shape; two redo() give cursor 2 and both shapes.
C10_Scenario ==
    LET t0 == <<"imageLoaded", "addRectangle", "addCircle">>
        t1 == Append(t0, "undo")
        t2 == Append(t1, "undo")
        t4 == t2 \o <<"redo", "redo">>
    IN /\ trace = t0 => Len(history) = 3 /\ historyIndex = 2
       /\ trace = t1 => historyIndex = 1 /\ Shapes = <<Rect>>
       /\ trace = t2 => historyIndex = 0 /\ Shapes = <<>>
       /\ trace = t4 => historyIndex = 2 /\ Shapes = <<Rect, Circle>>

\* C11: deleteSelected() with a selected shape removes exactly that shape and
\* captures once; from a loaded empty surface, addRectangle() then
\* deleteSelected() give history length 3, cursor 2 and an empty surface, and
\* undo() then puts the rectangle back.
C11_DeleteScenario ==
    LET t0 == <<"imageLoaded", "addRectangle", "deleteSelected">>
        t1 == Append(t0, "undo")
    IN /\ (/\ LastOp = "deleteSelected"
           /\ prev.canvas # Null
           /\ prev.activeObject[prev.canvas] # 0)
          => /\ objects[prev.canvas] =
                    RemoveAt(prev.objects[prev.canvas],
                             IndexOf(prev.objects[prev.canvas],
                                     prev.activeObject[prev.canvas]))
             /\ Len(history) = Len(prev.history) + 1
       /\ trace = t0 => Len(history) = 3 /\ historyIndex = 2 /\ Shapes = <<>>
       /\ trace = t1 => Shapes = <<Rect>>

\* C12: a stored snapshot is immutable: every snapshot that stays in the log
\* over an event (same stored objects, same timestamp, same index) has the
\* contents it had before the event, whatever the event did to the live shapes.
C12_SnapshotsImmutable ==
    \A i \in 1..Len(history) :
        (i <= Len(prev.history) /\ history[i] = prev.history[i])
            => Content(heap, history[i].objects)
                   = Content(prev.heap, prev.history[i].objects)

\* The rectangle put back on the surface by undo() has been dragged away; the
\* snapshot it was restored from and the one captured by the undo still show
\* it at its first position.
C12_Witness ==
    /\ trace = <<"imageLoaded", "addRectangle", "addCircle", "undo", "modify">>
    /\ Len(history) = 4
    /\ ShapesAt(history, 0) = <<Rect>>
    /\ ShapesAt(history, 2) = <<Rect>>
    /\ Shapes = <<[Rect EXCEPT !.left = 200, !.top = 200]>>

\* C13: deleteSelected() on a surface with no selection changes neither the
\* shapes, nor the history, nor the cursor: nothing is captured.
C13_DeleteNothingSelected ==
    (/\ LastOp = "deleteSelected"
     /\ prev.canvas # Null
     /\ prev.activeObject[prev.canvas] = 0)
        => /\ objects = prev.objects
           /\ Shapes = PrevShapes
           /\ history = prev.history
           /\ historyIndex = prev.historyIndex

\* deleteSelected() has run on a surface that holds shapes, none selected.
C13_Witness ==
    /\ LastOp = "deleteSelected"
    /\ prev.canvas # Null
    /\ prev.activeObject[prev.canvas] = 0
    /\ PrevShapes # <<>>
    /\ Len(prev.history) >= 1

\* C14: while the component holds no surface (no canvas element, or the image
\* load not completed) the operations do nothing: the history is empty, the
\* cursor is -1 and no shape exists.
C14_NoSurfaceNoOp ==
    canvas = Null
        => /\ history = <<>>
           /\ historyIndex = -1
           /\ heap = <<>>
           /\ \A s \in 1..Len(objects) : objects[s] = <<>>

\* All six toolbar operations have run while the image load is still pending.
C14_Witness ==
    /\ canvas = Null
    /\ loads # {}
    /\ \A op \in {"addRectangle", "addCircle", "deleteSelected", "undo",
                  "redo", "exportCanvas"} :
           \E i \in 1..Len(trace) : trace[i] = op

\* C15: in every settled state with a cursor >= 0 the shapes on the surface
\* are the shapes of the snapshot stored at the cursor.
C15_SurfaceIsSnapshotAtCursor ==
    historyIndex >= 0
        => /\ historyIndex < Len(history)
           /\ Shapes = ShapesAt(history, historyIndex)

\* The last event was the image-load callback of a surface that had been
\* disposed of before the image arrived.
LateImageLoad ==
    /\ LastOp = "imageLoaded"
    /\ \E l \in prev.loads \ loads : l.fabricCanvas \in prev.disposed

\* C16: after a teardown nothing acts on the torn-down surface: the surface
\* the mounted component operates on is never a disposed one, and the late
\* image-load callback of a disposed surface neither makes it the current
\* surface nor captures a snapshot.
C16_NoUseAfterTeardown ==
    /\ (mounted /\ canvas # Null) => canvas \notin disposed
    /\ LateImageLoad => /\ canvas = prev.canvas
                        /\ history = prev.history
                        /\ historyIndex = prev.historyIndex

\* The position in trace of the last re-creation of the surface (0: none).
LastPropsChange ==
    LET at == {i \in 1..Len(trace) : trace[i] = "propsChanged"}
    IN IF at = {} THEN 0 ELSE CHOOSE i \in at : \A j \in at : j <= i

\* The snapshot the last undo() or redo() has loaded (it passed its guard).
LoadedSnapshot ==
    IF LastOp = "undo" THEN prev.history[prev.historyIndex]
    ELSE prev.history[prev.historyIndex + 2]

\* C17: the history belongs to one surface: a re-created surface starts with
\* an empty history and the cursor at -1, and undo() / redo() on it never
\* load a snapshot captured before the re-creation.
C17_FreshHistoryPerSurface ==
    /\ LastOp = "propsChanged" => /\ history = <<>>
                                  /\ historyIndex = -1
    /\ ( /\ LastPropsChange > 0
         /\ prev.canvas # Null
         /\ prev.canvas \notin prev.disposed
         /\ \/ LastOp = "undo" /\ prev.historyIndex > 0
            \/ LastOp = "redo" /\ prev.historyIndex < Len(prev.history) - 1 )
       => LoadedSnapshot.timestamp > LastPropsChange

====
